---------------------------- MODULE Spec2Model ----------------------------
(* A model of the opt8n session (crates/opt8n/src/opt8n.rs): the repl     *)
(* loop racing operator commands against the node's block notifications,  *)
(* the transaction accumulator, the state-diff merge and the dump.        *)
(* The execution node, the operator and the file system are the           *)
(* environment: their answers are chosen nondeterministically.            *)
EXTENDS Integers, Sequences, FiniteSets, TLC

(***************************************************************************)
(* Bounds of the model.                                                    *)
(***************************************************************************)
\* lines the operator writes to standard input during a session
MaxLines == 2
\* blocks the node mines for external clients during a session
MaxExternal == 1
\* cap on the length of the accumulated transaction list
MaxTxs == 2

(***************************************************************************)
(* Small generic helpers.                                                  *)
(***************************************************************************)
Range(s) == {s[k] : k \in DOMAIN s}

IsPrefix(s, t) == Len(s) <= Len(t) /\ SubSeq(t, 1, Len(s)) = s

RECURSIVE Flatten(_)
Flatten(ss) == IF ss = <<>> THEN <<>> ELSE Head(ss) \o Flatten(Tail(ss))

(***************************************************************************)
(* Operator input.  A line is the sequence of its characters.              *)
(***************************************************************************)
LineDump     == <<"d", "u", "m", "p">>
LineDumpp    == <<"d", "u", "m", "p", "p">>
LineExit     == <<"e", "x", "i", "t">>
LineNodeGood == <<"a", " ", "-", "p">>
LineNodeBad  == <<"a", " ", "-", "x">>
LineCast     == <<"c", " ", "x">>

Lines == {LineDump, LineDumpp, LineExit, LineNodeGood, LineNodeBad, LineCast}

\* shellwords::split: blanks separate words, quotes group, an unclosed
\* quote is an error.  The scanner state is the words finished so far, the
\* word in progress (Len 0 and open = FALSE when none) and the open quote.
RECURSIVE Scan(_, _, _, _, _)
Scan(line, words, cur, open, quote) ==
    IF line = <<>>
    THEN IF quote # ""
         THEN [ok |-> FALSE, words |-> <<>>]
         ELSE [ok |-> TRUE,
               words |-> IF open THEN Append(words, cur) ELSE words]
    ELSE LET c == Head(line)
             rest == Tail(line)
         IN  IF quote # ""
             THEN IF c = quote
                  THEN Scan(rest, words, cur, TRUE, "")
                  ELSE Scan(rest, words, Append(cur, c), TRUE, quote)
             ELSE IF c \in {"'", "\""}
                  THEN Scan(rest, words, cur, TRUE, c)
                  ELSE IF c = " "
                       THEN IF open
                            THEN Scan(rest, Append(words, cur), <<>>, FALSE, "")
                            ELSE Scan(rest, words, <<>>, FALSE, "")
                       ELSE Scan(rest, words, Append(cur, c), TRUE, "")

ShellSplit(line) == Scan(line, <<>>, <<>>, FALSE, "")

\* The subcommands of ReplCommand with their visible aliases, and the help
\* subcommand the parser generator adds.
Subcommands ==
    { [cmd |-> "Anvil", name |-> <<"a", "n", "v", "i", "l">>, aliases |-> {<<"a">>}],
      [cmd |-> "Cast",  name |-> <<"c", "a", "s", "t">>,      aliases |-> {<<"c">>}],
      [cmd |-> "Dump",  name |-> <<"d", "u", "m", "p">>,      aliases |-> {}],
      [cmd |-> "Exit",  name |-> <<"e", "x", "i", "t">>,      aliases |-> {<<"e">>}],
      [cmd |-> "Help",  name |-> <<"h", "e", "l", "p">>,      aliases |-> {}] }

\* str::starts_with as infer_subcommands uses it: arg is a prefix of name
StartsWith(name, arg) == IsPrefix(arg, name)

\* infer_subcommands = true: a word selects the one subcommand whose name
\* (or else one of whose aliases) it is a prefix of; with several
\* candidates only an exact name or alias selects.
InferSubcommand(arg) ==
    LET options == {sc \in Subcommands :
                       \/ StartsWith(sc.name, arg)
                       \/ \E al \in sc.aliases : StartsWith(al, arg)}
        exact == {sc \in Subcommands : sc.name = arg \/ arg \in sc.aliases}
    IN  IF Cardinality(options) = 1
        THEN (CHOOSE sc \in options : TRUE).cmd
        ELSE IF Cardinality(exact) = 1
             THEN (CHOOSE sc \in exact : TRUE).cmd
             ELSE "None"

\* ReplCommand::command().try_get_matches_from(words) and from_arg_matches:
\* the first word is the subcommand (multicall), Dump and Exit take no
\* argument, Anvil and Cast take the remaining words verbatim.
ParseWords(words) ==
    IF words = <<>>
    THEN [kind |-> "Err", args |-> <<>>]
    ELSE LET cmd == InferSubcommand(Head(words))
         IN  CASE cmd \in {"Anvil", "Cast"} -> [kind |-> cmd, args |-> Tail(words)]
               [] cmd \in {"Dump", "Exit"} ->
                     IF Tail(words) = <<>>
                     THEN [kind |-> cmd, args |-> <<>>]
                     ELSE [kind |-> "Err", args |-> <<>>]
               [] OTHER -> [kind |-> "Err", args |-> <<>>]

\* receive_command after the line is read: split, then parse
ParseLine(line) ==
    LET split == ShellSplit(line)
    IN  IF split.ok THEN ParseWords(split.words) ELSE [kind |-> "Err", args |-> <<>>]

\* The node's own argument grammar, as far as the model's lines use it:
\* -p is an option the node accepts, anything else is rejected.
NodeFlags == {<<"-", "p">>}

\* execute, Anvil branch: "anvil" is put in front and the node's parser
\* runs over the arguments
NodeArgsParse(args) ==
    LET argv == <<<<"a", "n", "v", "i", "l">>>> \o args
    IN  \A k \in 2..Len(argv) : argv[k] \in NodeFlags


(***************************************************************************)
(* The execution node (external): transactions, pool ordering, blocks.     *)
(***************************************************************************)
Txs == {"A", "B"}

\* tx.gas_price(): A pays 10, B pays 20
GasPrice(tx) == IF tx = "A" THEN 10 ELSE 20

\* the transaction lists of the blocks the node mines for external clients
ExternalBlocks == {<<"A">>, <<"A", "B">>}

Addrs == {"a1", "a2"}
NoAccount == "none"
AccountStates == {"s0", "s1", "s2"}

EmptyAlloc == [a \in Addrs |-> NoAccount]

\* the diff-mode frames the tracer reports in the model: (pre, post) maps
FrameA == [pre  |-> [a \in Addrs |-> IF a = "a1" THEN "s0" ELSE NoAccount],
           post |-> [a \in Addrs |-> "s1"]]
FrameB == [pre  |-> [a \in Addrs |-> IF a = "a1" THEN "s1" ELSE "s0"],
           post |-> [a \in Addrs |-> IF a = "a1" THEN "s2" ELSE NoAccount]]
Frames == {FrameA, FrameB}

\* what debug_trace_transaction answers: a diff frame
\* (GethTrace::PreStateTracer(PreStateFrame::Diff)), a trace of another
\* shape, or an error
TraceAnswers ==
    {[shape |-> "diff", pre |-> f.pre, post |-> f.post] : f \in Frames}
    \cup {[shape |-> sh, pre |-> EmptyAlloc, post |-> EmptyAlloc] :
             sh \in {"other", "error"}}

\* what transaction_receipt answers
ReceiptAnswers == {"some", "none", "error"}

\* what creating and writing the output file can do
WriteAnswers == {"ok", "create_error", "write_error"}

RECURSIVE InsertByPriority(_, _)
InsertByPriority(sorted, p) ==
    IF sorted = <<>> THEN <<p>>
    ELSE IF Head(sorted).priority >= p.priority
         THEN <<Head(sorted)>> \o InsertByPriority(Tail(sorted), p)
         ELSE <<p>> \o sorted

RECURSIVE SortByPriority(_)
SortByPriority(pool) ==
    IF pool = <<>> THEN <<>>
    ELSE InsertByPriority(SortByPriority(SubSeq(pool, 1, Len(pool) - 1)),
                          pool[Len(pool)])

\* the order in which the node puts the submitted pool transactions into
\* the block: as submitted, or by descending priority (ties as submitted)
NodeOrder(pool, order) ==
    LET sorted == IF order = "priority" THEN SortByPriority(pool) ELSE pool
    IN  [k \in 1..Len(sorted) |-> sorted[k].tx]

\* the transactions the node includes: with replay protection a
\* transaction already executed since the fork origin is invalid and left out
RECURSIVE Include(_, _, _)
Include(txs, executed, protect) ==
    IF txs = <<>> THEN <<>>
    ELSE IF protect /\ Head(txs) \in executed
         THEN Include(Tail(txs), executed, protect)
         ELSE <<Head(txs)>> \o Include(Tail(txs), executed \cup {Head(txs)}, protect)

\* the world state after the blocks mined since the fork origin
Chain(bs) == Flatten([k \in 1..Len(bs) |-> bs[k].txs])

\* a mined block: its hash, its transactions and its header's roots
NewBlock(id, txs, bs) ==
    [id |-> id, txs |-> txs,
     state_root   |-> <<"root">> \o Chain(bs) \o txs,
     tx_root      |-> <<"root">> \o txs,
     receipt_root |-> <<"root">> \o Chain(bs) \o <<"|">> \o txs]

\* backend.get_block_by_hash / get_block: the stored block, if any
Stored(bs, id) == {b \in Range(bs) : b.id = id}

(***************************************************************************)
(* The fixture (ExecutionFixture) and its merge operations.                *)
(***************************************************************************)
NoBlock == [id |-> 0, txs |-> <<>>, state_root |-> <<>>, tx_root |-> <<>>,
            receipt_root |-> <<>>]

DefaultResult == [state_root |-> <<>>, tx_root |-> <<>>, receipt_root |-> <<>>,
                  logs_hash |-> "zero", receipts |-> <<>>]

\* the env of a fixture: the number of the block it was taken from
DefaultEnv == NoBlock.id

\* PoolTransaction { pending_transaction, priority: TransactionPriority(gas_price) }
PoolTransaction(tx) == [tx |-> tx, priority |-> GasPrice(tx)]

\* the pool_txs of dump_execution_fixture
PoolTxs(txs) == [k \in 1..Len(txs) |-> PoolTransaction(txs[k])]

MergePreMut(al, pre) ==
    [a \in Addrs |-> IF pre[a] # NoAccount THEN pre[a] ELSE al[a]]

\* frame.pre: alloc.entry(address).or_insert(account)
MergePre(al, pre) ==
    [a \in Addrs |-> IF al[a] = NoAccount THEN pre[a] ELSE al[a]]

MergePostMut(oal, post) ==
    [a \in Addrs |-> IF oal[a] = NoAccount THEN post[a] ELSE oal[a]]

\* frame.post: out_alloc.insert(address, account)
MergePost(oal, post) ==
    [a \in Addrs |-> IF post[a] # NoAccount THEN post[a] ELSE oal[a]]

AllocAfterMut(al, answer) ==
    IF answer.shape = "diff" THEN MergePre(al, answer.pre) ELSE EmptyAlloc

\* update_alloc, one transaction: only a diff frame reaches the merge of
\* frame.pre; any other answer leaves alloc as it is
AllocAfter(al, answer) ==
    IF answer.shape = "diff" THEN MergePre(al, answer.pre) ELSE al

OutAllocAfterMut(oal, answer) ==
    IF answer.shape = "diff" THEN MergePost(oal, answer.post) ELSE EmptyAlloc

\* update_alloc, one transaction: only a diff frame reaches the merge of
\* frame.post; any other answer leaves out_alloc as it is
OutAllocAfter(oal, answer) ==
    IF answer.shape = "diff" THEN MergePost(oal, answer.post) ELSE oal

PushReceiptMut(rs, tx, answer) == Append(rs, tx)

\* if let Some(receipt) = ... { receipts.push(receipt.into()) }
PushReceipt(rs, tx, answer) == IF answer = "some" THEN Append(rs, tx) ELSE rs

\* ExecutionResult assembled from the block header and the receipts
ExecutionResult(b, rs) ==
    [state_root |-> b.state_root, tx_root |-> b.tx_root,
     receipt_root |-> b.receipt_root, logs_hash |-> "zero", receipts |-> rs]

\* the serialized fixture
Fixture(ts, al, oal, e, r) ==
    [transactions |-> ts, alloc |-> al, out_alloc |-> oal, env |-> e, result |-> r]

DefaultFixture == Fixture(<<>>, EmptyAlloc, EmptyAlloc, DefaultEnv, DefaultResult)

(***************************************************************************)
(* The state.                                                              *)
(***************************************************************************)
VARIABLES
    pc,                 \* where repl is: "select", inside a dump or a node
                        \* passthrough, "returned" or "panicked"
    ret,                \* what repl returned: "none" while it runs
    stderr,             \* the "Error: ..." lines printed, each with the
                        \* input line it is about
    stdin,              \* complete lines written and not yet read
    typed,              \* lines written so far
    pool_order,         \* the node's pool ordering policy
    replay_protection,  \* whether the node rejects already executed transactions
    blocks,             \* the node's blocks since the fork origin
    minted,             \* number of blocks the node has mined
    externals,          \* blocks mined for external clients
    new_blocks,         \* the subscription's pending notifications (hashes)
    transactions, alloc, out_alloc, env, result,    \* execution_fixture
    file,               \* the output file
    pool_txs, block, ordered_txs, receipts, i,      \* locals of the dump
    reset_ok,           \* whether the reset of the dump in progress succeeded
    receipt_log,        \* the answers to the receipt requests of the last dump
    quiet,              \* the last dump reset the fork and assembled a
                        \* result, and no external block was mined or
                        \* handled since that dump began
    dumps               \* number of Dump commands repl has dispatched

fixture == <<transactions, alloc, out_alloc, env, result>>
operator == <<stdin, typed>>
node == <<pool_order, replay_protection, blocks, minted, externals, new_blocks>>
locals == <<pool_txs, block, ordered_txs, receipts, i, reset_ok>>
history == <<receipt_log, quiet, dumps>>
vars == <<pc, ret, stderr, operator, node, fixture, file, locals, history>>

FileAbsent == [exists |-> FALSE, content |-> <<>>]

\* Opt8n::new: an empty fixture; repl: the subscription is taken first
Init ==
    /\ pc = "select"
    /\ ret = "none"
    /\ stderr = <<>>
    /\ stdin = <<>>
    /\ typed = 0
    /\ pool_order \in {"submission", "priority"}
    /\ replay_protection \in BOOLEAN
    /\ blocks = <<>>
    /\ minted = 0
    /\ externals = 0
    /\ new_blocks = <<>>
    /\ transactions = <<>>
    /\ alloc = EmptyAlloc
    /\ out_alloc = EmptyAlloc
    /\ env = DefaultEnv
    /\ result = DefaultResult
    /\ file = FileAbsent
    /\ pool_txs = <<>>
    /\ block = NoBlock
    /\ ordered_txs = <<>>
    /\ receipts = <<>>
    /\ i = 0
    /\ receipt_log = <<>>
    /\ reset_ok = FALSE
    /\ quiet = FALSE
    /\ dumps = 0

Running == pc \notin {"returned", "panicked"}

(***************************************************************************)
(* The environment: the operator and the node's other clients.             *)
(***************************************************************************)
\* The operator writes a line.  A line written while a command is being
\* executed, or left unread behind the line a read returned, is read only at
\* a later wait: it is written then.
OperatorTypes(l) ==
    /\ pc = "select"
    /\ typed < MaxLines
    /\ stdin' = Append(stdin, l)
    /\ typed' = typed + 1
    /\ UNCHANGED <<pc, ret, stderr, node, fixture, file, locals, history>>

\* the node mines a block and announces it to its subscribers
Mine(txs) ==
    LET b == NewBlock(minted + 1,
                      Include(txs, Range(Chain(blocks)), replay_protection),
                      blocks)
    IN  /\ blocks' = Append(blocks, b)
        /\ minted' = minted + 1
        /\ new_blocks' = Append(new_blocks, b.id)

\* A block with the transactions of external clients.  One mined while a
\* command is being executed is handled only at the next wait, so it is
\* mined then.
ExternalBlock(txs) ==
    /\ pc = "select"
    /\ externals < MaxExternal
    /\ Mine(txs)
    /\ externals' = externals + 1
    /\ quiet' = FALSE
    /\ UNCHANGED <<pc, ret, stderr, operator, pool_order,
                   replay_protection, fixture, file, locals, receipt_log, dumps>>

(***************************************************************************)
(* repl: one ready event is taken and handled before the next wait.        *)
(***************************************************************************)
SelectReadyMut == Running

\* the loop is at tokio::select!
SelectReady == pc = "select"

AfterReceiveErrorMut == [pc |-> "returned", ret |-> "parse_error"]

\* Err(e) => eprintln!(...): the loop goes on
AfterReceiveError == [pc |-> "select", ret |-> "none"]

AfterExitMut == [pc |-> "reset", ret |-> "none"]

\* Ok(ReplCommand::Exit) => break, then Ok(())
AfterExit == [pc |-> "returned", ret |-> "Ok"]

\* self.execute(command).await?: an error of execute leaves repl
AfterExecute(err) ==
    IF err = "none" THEN [pc |-> "select", ret |-> "none"]
    ELSE [pc |-> "returned", ret |-> err]

\* receive_command: a fresh BufReader reads the lines that are available,
\* returns the first and is dropped with the rest; then the line is parsed
\* and dispatched.
ReceiveCommand ==
    /\ SelectReady
    /\ stdin # <<>>
    /\ stdin' = <<>>
    /\ LET cmd == ParseLine(Head(stdin))
       IN  \/ /\ cmd.kind = "Exit"
              /\ pc' = AfterExit.pc
              /\ ret' = AfterExit.ret
              /\ UNCHANGED <<stderr, dumps>>
           \/ /\ cmd.kind = "Err"
              /\ stderr' = Append(stderr, Head(stdin))
              /\ pc' = AfterReceiveError.pc
              /\ ret' = AfterReceiveError.ret
              /\ UNCHANGED dumps
           \/ /\ cmd.kind = "Dump"
              /\ pc' = "reset"
              /\ dumps' = dumps + 1
              /\ UNCHANGED <<ret, stderr>>
           \/ /\ cmd.kind = "Cast"
              /\ pc' = AfterExecute("none").pc
              /\ ret' = AfterExecute("none").ret
              /\ UNCHANGED <<stderr, dumps>>
           \/ /\ cmd.kind = "Anvil"
              /\ NodeArgsParse(cmd.args)
              /\ pc' = "node_run"
              /\ UNCHANGED <<ret, stderr, dumps>>
           \/ /\ cmd.kind = "Anvil"
              /\ ~NodeArgsParse(cmd.args)
              /\ pc' = AfterExecute("node_args_error").pc
              /\ ret' = AfterExecute("node_args_error").ret
              /\ UNCHANGED <<stderr, dumps>>
    /\ UNCHANGED <<typed, node, fixture, file, locals, receipt_log, quiet>>

\* the operator closes standard input after the lines written: next_line()
\* yields None and unwrap() panics
ReceiveEndOfInput ==
    /\ SelectReady
    /\ stdin = <<>>
    /\ pc' = "panicked"
    /\ UNCHANGED <<ret, stderr, operator, node, fixture, file, locals,
                   history>>

\* node_args.run().await?
NodeRun ==
    /\ pc = "node_run"
    /\ \E err \in {"none", "node_run_error"} :
          /\ pc' = AfterExecute(err).pc
          /\ ret' = AfterExecute(err).ret
    /\ UNCHANGED <<stderr, operator, node, fixture, file, locals, history>>

ExtendMut(ts, txs) == ts \o SelectSeq(txs, LAMBDA tx : tx \notin Range(ts))

\* transactions.extend(block.transactions)
Extend(ts, txs) == ts \o txs

\* new_blocks.next(): the block is fetched by hash and, if the node still
\* has it, its transactions are appended
HandleBlock ==
    /\ SelectReady
    /\ new_blocks # <<>>
    /\ new_blocks' = Tail(new_blocks)
    /\ LET found == Stored(blocks, Head(new_blocks))
       IN  \/ /\ found = {}
              /\ UNCHANGED transactions
           \/ /\ found # {}
              /\ LET b == CHOOSE b \in found : TRUE
                 IN  /\ Len(transactions) + Len(b.txs) <= MaxTxs
                     /\ transactions' = Extend(transactions, b.txs)
    /\ UNCHANGED <<pc, ret, stderr, operator, pool_order,
                   replay_protection, blocks, minted, externals, alloc,
                   out_alloc, env, result, file, locals, history>>

(***************************************************************************)
(* dump_execution_fixture, one action per answer of the node.              *)
(***************************************************************************)
ResetForkMut ==
    /\ pc = "reset"
    /\ reset_ok' \in BOOLEAN
    /\ blocks' = IF reset_ok' THEN <<>> ELSE blocks
    /\ pool_txs' = IF reset_ok' THEN PoolTxs(transactions) ELSE pool_txs
    /\ pc' = IF reset_ok' THEN "mine" ELSE "returned"
    /\ ret' = IF reset_ok' THEN ret ELSE "reset_error"
    /\ UNCHANGED <<stderr, operator, pool_order, replay_protection,
                   minted, externals, new_blocks, fixture, file, block,
                   ordered_txs, receipts, i, history>>

\* reset_fork answers (its error is dropped); the pool transactions are
\* built from the accumulated list and submitted for mining
ResetFork ==
    /\ pc = "reset"
    /\ reset_ok' \in BOOLEAN
    /\ blocks' = IF reset_ok' THEN <<>> ELSE blocks
    /\ pool_txs' = PoolTxs(transactions)
    /\ pc' = "mine"
    /\ UNCHANGED <<ret, stderr, operator, pool_order, replay_protection,
                   minted, externals, new_blocks, fixture, file, block,
                   ordered_txs, receipts, i, history>>

\* execute returns to repl with err ("none": Ok): the locals of the dump
\* are gone
Return(err) ==
    /\ pc' = AfterExecute(err).pc
    /\ ret' = AfterExecute(err).ret
    /\ pool_txs' = <<>>
    /\ block' = NoBlock
    /\ ordered_txs' = <<>>
    /\ receipts' = <<>>
    /\ i' = 0
    /\ reset_ok' = FALSE
    /\ receipt_log' = <<>>

WriteFileMut(fx) ==
    \E w \in WriteAnswers :
       /\ file' = CASE w = "create_error" -> file
                    [] w = "write_error" -> [exists |-> TRUE, content |-> file.content]
                    [] OTHER -> [exists |-> TRUE, content |-> Append(file.content, fx)]
       /\ Return(IF w = "ok" THEN "none" ELSE w)

\* File::create(&self.output_file)? and serde_json::to_writer_pretty(..)?
WriteFile(fx) ==
    \E w \in WriteAnswers :
       /\ file' = CASE w = "create_error" -> file
                    [] w = "write_error" -> [exists |-> TRUE, content |-> <<>>]
                    [] OTHER -> [exists |-> TRUE, content |-> <<fx>>]
       /\ Return(IF w = "ok" THEN "none" ELSE w)

\* the result and env taken from the block, then the file is written
AssembleAndWrite(b, rs, al, oal) ==
    /\ result' = ExecutionResult(b, rs)
    /\ env' = b.id
    /\ quiet' = (reset_ok /\ new_blocks' = <<b.id>>)
    /\ WriteFile(Fixture(transactions, al, oal, env', result'))

MineNoBlockMut == AssembleAndWrite(NoBlock, <<>>, alloc, out_alloc)

\* get_block(mined_block.block_number) is None: the if let body is skipped
\* and only the file is written
MineNoBlock ==
    /\ WriteFile(Fixture(transactions, alloc, out_alloc, env, result))
    /\ UNCHANGED <<env, result, quiet>>

\* mine_block answers: the node has mined the pool transactions in its own
\* order and announced the block; the block is fetched by number
MineBlock ==
    /\ pc = "mine"
    /\ Mine(NodeOrder(pool_txs, pool_order))
    /\ \/ \* get_block finds nothing
          MineNoBlock
       \/ \* an empty block: both loops are empty
          /\ blocks'[Len(blocks')].txs = <<>>
          /\ AssembleAndWrite(blocks'[Len(blocks')], <<>>, alloc, out_alloc)
       \/ \* the first receipt is requested
          /\ blocks'[Len(blocks')].txs # <<>>
          /\ block' = blocks'[Len(blocks')]
          /\ ordered_txs' = block'.txs
          /\ receipts' = <<>>
          /\ i' = 1
          /\ pc' = "receipts"
          /\ UNCHANGED <<ret, env, result, file, quiet, pool_txs, reset_ok,
                         receipt_log>>
    /\ UNCHANGED <<stderr, operator, pool_order, replay_protection,
                   externals, transactions, alloc, out_alloc, dumps>>

\* transaction_receipt answers for ordered_txs[i]; after the last receipt
\* update_alloc requests the first trace
FetchReceipt ==
    /\ pc = "receipts"
    /\ \E answer \in ReceiptAnswers :
          \/ /\ answer = "error"
             /\ Return("receipt_error")
          \/ /\ answer # "error"
             /\ receipt_log' = Append(receipt_log, answer)
             /\ receipts' = PushReceipt(receipts, ordered_txs[i], answer)
             /\ i' = IF i < Len(ordered_txs) THEN i + 1 ELSE 1
             /\ pc' = IF i < Len(ordered_txs) THEN "receipts" ELSE "trace"
             /\ UNCHANGED <<ret, pool_txs, block, ordered_txs, reset_ok>>
    /\ UNCHANGED <<stderr, operator, node, fixture, file, quiet, dumps>>

\* debug_trace_transaction answers for ordered_txs[i] (update_alloc); after
\* the last one the result is assembled and the file written
TraceTransaction ==
    /\ pc = "trace"
    /\ UNCHANGED <<stderr, operator, node, transactions, dumps>>
    /\ \E answer \in TraceAnswers :
          \/ /\ answer.shape = "error"
             /\ Return("trace_error")
             /\ alloc' = AllocAfter(alloc, answer)
             /\ out_alloc' = OutAllocAfter(out_alloc, answer)
             /\ UNCHANGED <<env, result, file, quiet>>
          \/ /\ answer.shape # "error"
             /\ alloc' = AllocAfter(alloc, answer)
             /\ out_alloc' = OutAllocAfter(out_alloc, answer)
             /\ \/ /\ i < Len(ordered_txs)
                   /\ i' = i + 1
                   /\ UNCHANGED <<pc, ret, env, result, file, quiet, pool_txs,
                                  block, ordered_txs, receipts, reset_ok,
                                  receipt_log>>
                \/ /\ i = Len(ordered_txs)
                   /\ AssembleAndWrite(block, receipts, alloc', out_alloc')

Next ==
    \/ \E l \in Lines : OperatorTypes(l)
    \/ \E txs \in ExternalBlocks : ExternalBlock(txs)
    \/ ReceiveCommand
    \/ ReceiveEndOfInput
    \/ NodeRun
    \/ HandleBlock
    \/ ResetFork
    \/ MineBlock
    \/ FetchReceipt
    \/ TraceTransaction

Spec == Init /\ [][Next]_vars

(***************************************************************************)
(* Properties of the session.                                              *)
(***************************************************************************)
\* the step in which receive_command returns a line
ReadsLine == pc = "select" /\ stdin # <<>> /\ stdin' = <<>>

\* the step in which a dump assembles env and result from its block
Assembles == env' # env

\* C1: repl reaches its terminal state only by receiving Exit: whatever
\* the events and the answers of the external calls, the loop is running
\* unless it has returned Ok(()) through the Exit arm.
C1_OnlyExitTerminates == Running \/ (pc = "returned" /\ ret = "Ok")

\* C2: a dump that cannot create the output file or serialize the fixture
\* does not terminate the session: repl never returns with that error.
C2_FileErrorNotFatal ==
    ~(pc = "returned" /\ ret \in {"create_error", "write_error"})

\* a line that is an input error: unrecognized or malformed, or a node
\* passthrough whose arguments the node's parser rejects
InputError(line) ==
    LET cmd == ParseLine(line)
    IN  \/ cmd.kind = "Err"
        \/ cmd.kind = "Anvil" /\ ~NodeArgsParse(cmd.args)

\* C3: input errors are non-fatal: when the line read is an input error,
\* one error is reported, the fixture is unchanged and the loop waits for
\* the next event.
C3_InputErrorsNonFatal ==
    [][(ReadsLine /\ InputError(Head(stdin)))
          => /\ pc' = "select"
             /\ ret' = "none"
             /\ Len(stderr') = Len(stderr) + 1
             /\ UNCHANGED fixture]_vars

\* C4: reading the line dumpp reports an error about it and leaves the
\* session active with the fixture and the output file untouched; a dump
\* line read after that is accepted and its execution begins.
C4_DumppThenDump ==
    [][/\ (ReadsLine /\ Head(stdin) = LineDumpp)
            => /\ pc' = "select"
               /\ ret' = "none"
               /\ stderr' = Append(stderr, LineDumpp)
               /\ UNCHANGED <<fixture, file>>
       /\ (ReadsLine /\ stderr # <<>> /\ stderr[Len(stderr)] = LineDumpp
              /\ Head(stdin) = LineDump)
            => /\ pc' = "reset"
               /\ dumps' = dumps + 1]_vars

\* the dump typed after a dumpp has been accepted and is being executed
C4_Witness == pc = "reset" /\ stderr = <<LineDumpp>> /\ dumps = 1 /\ typed = 2

\* C5: alloc is first-write-wins: in every step an address alloc already
\* holds keeps its value, and merging again the pre-state of any frame
\* whose merge gave the new alloc changes nothing.
C5_AllocFirstWriteWins ==
    [][/\ \A a \in Addrs : alloc[a] # NoAccount => alloc'[a] = alloc[a]
       /\ \A f \in Frames :
             alloc' = MergePre(alloc, f.pre)
                => MergePre(alloc', f.pre) = alloc']_vars

\* FrameA then FrameB were merged: a1 keeps the pre-state of FrameA, which
\* FrameB reports differently
C5_Witness ==
    /\ alloc = [a \in Addrs |-> "s0"]
    /\ out_alloc["a1"] = "s2"

\* the post-state merge as the specification words it: the addresses a
\* frame mentions take its post-state, the others keep their value
LastWrite(oal, f) ==
    [a \in Addrs |-> IF f.post[a] # NoAccount THEN f.post[a] ELSE oal[a]]

\* C6: out_alloc is last-write-wins: a step leaves out_alloc alone or gives
\* every address a frame mentions that frame's post-state and keeps the
\* others; after D1 then D2 an address D2 mentions has D2's post-state.
C6_OutAllocLastWriteWins ==
    [][out_alloc' # out_alloc
          => /\ \E f \in Frames : out_alloc' = LastWrite(out_alloc, f)
             /\ \A d1, d2 \in Frames : \A a \in Addrs :
                   d2.post[a] # NoAccount
                      => MergePost(MergePost(out_alloc, d1.post), d2.post)[a]
                            = d2.post[a]]_vars

\* FrameA then FrameB were merged: a1 has FrameB's post-state and a2, which
\* FrameB does not mention, keeps FrameA's
C6_Witness == out_alloc = [a \in Addrs |-> IF a = "a1" THEN "s2" ELSE "s1"]

\* the transactions of txs whose receipt request was answered with a receipt
RECURSIVE Received(_, _)
Received(txs, log) ==
    IF txs = <<>> \/ log = <<>> THEN <<>>
    ELSE IF Head(log) = "some"
         THEN <<Head(txs)>> \o Received(Tail(txs), Tail(log))
         ELSE Received(Tail(txs), Tail(log))

\* C7: when a dump assembles its result, the receipts are those of the
\* mined block's transactions whose receipt the node returned, in block
\* order, at most one per accumulated transaction; under priority ordering
\* that order is by descending gas price whatever the submission order.
C7_ReceiptsInBlockOrder ==
    [][Assembles =>
          LET mined == CHOOSE b \in Stored(blocks', env') : TRUE
              rs == result'.receipts
          IN  /\ Stored(blocks', env') # {}
              /\ Len(receipt_log) = Len(mined.txs)
              /\ rs = Received(mined.txs, receipt_log)
              /\ Len(rs) <= Len(transactions)
              /\ pool_order = "priority"
                    => \A j, k \in 1..Len(rs) :
                          j < k => GasPrice(rs[j]) >= GasPrice(rs[k])]_vars

\* A then B were accumulated and submitted, the node mined B before A and
\* returned both receipts
C7_Witness ==
    /\ transactions = <<"A", "B">>
    /\ result.receipts = <<"B", "A">>
    /\ dumps = 1

\* C8: a second dump with no external block in between and the fork reset
\* both times submits the accumulated list the previous dump wrote and
\* assembles the same state_root, tx_root and receipt_root.
C8_DumpTwiceDeterministic ==
    [][/\ (pc = "reset" /\ pc' = "mine" /\ quiet /\ file.content # <<>>)
            => pool_txs' = PoolTxs(file.content[1].transactions)
       /\ (Assembles /\ quiet /\ reset_ok)
            => /\ result'.state_root = result.state_root
               /\ result'.tx_root = result.tx_root
               /\ result'.receipt_root = result.receipt_root]_vars

\* C9: the output file changes only in a step of a dispatched Dump command
\* (after mine_block or after the last trace); a session that returns
\* through Exit without having dispatched a Dump leaves the file absent.
C9_FileWrittenOnlyByDump ==
    [][/\ file' # file => (pc \in {"mine", "trace"} /\ dumps > 0)
       /\ (pc' = "returned" /\ ret' = "Ok" /\ dumps' = 0)
             => file' = FileAbsent]_vars

\* Exit was the first command read, after a block notification had been
\* handled, and the file is absent
C9_Witness ==
    /\ pc = "returned" /\ ret = "Ok"
    /\ typed = 1 /\ stderr = <<>>
    /\ externals = 1 /\ transactions # <<>>
    /\ file = FileAbsent

\* C10: command handling and notification handling do not overlap: while a
\* command is being executed no notification is taken and transactions does
\* not change; the step that takes a notification reads no line and the
\* step that reads a line takes no notification.
C10_NoOverlap ==
    [][/\ pc # "select"
            => /\ transactions' = transactions
               /\ IsPrefix(new_blocks, new_blocks')
       /\ Len(new_blocks') < Len(new_blocks)
            => /\ pc = "select" /\ pc' = "select"
               /\ stdin' = stdin
       /\ ReadsLine
            => /\ transactions' = transactions
               /\ IsPrefix(new_blocks, new_blocks')]_vars

\* a notification (the dump's own block) is pending while the dump is still
\* executing, and transactions is what it was when the dump began
C10_Witness ==
    /\ pc = "trace"
    /\ new_blocks # <<>>
    /\ pool_txs = PoolTxs(transactions)
    /\ transactions # <<>>

\* repl is inside dump_execution_fixture
InDump == pc \in {"reset", "mine", "receipts", "trace"}

\* the dump in progress is left with an error of the node
NodeFails == InDump /\ ret' \in {"receipt_error", "trace_error"}

\* C11: a dump the node fails (receipt or trace error) is aborted: env,
\* result and the output file are not changed by any step of the dump up to
\* and including the failing one, and the failing step leaves alloc and
\* out_alloc with what the earlier traces merged.
C11_NodeErrorAbortsDump ==
    [][/\ (InDump /\ (pc' \in {"reset", "mine", "receipts", "trace"}
                        \/ NodeFails))
            => UNCHANGED <<env, result, file>>
       /\ NodeFails => UNCHANGED <<alloc, out_alloc, transactions>>]_vars

\* the first dump of a session failed at a later trace: what the first
\* trace merged is in the fixture, nothing was assembled or written
C11_Witness ==
    /\ pc = "returned" /\ ret = "trace_error" /\ dumps = 1
    /\ alloc # EmptyAlloc /\ out_alloc # EmptyAlloc
    /\ env = DefaultEnv /\ result = DefaultResult /\ file = FileAbsent

\* a dump returns Ok(()) to repl
DumpCompletes == InDump /\ pc' = "select"

\* C12: when a dump completes without error the output file holds exactly
\* one document, the fixture as it is at the end of the dump, whatever the
\* file held before; the dump removes nothing from the in-memory fixture.
C12_FileHoldsOneFixture ==
    [][DumpCompletes
          => /\ file'.exists
             /\ file'.content =
                   <<Fixture(transactions', alloc', out_alloc', env', result')>>
             /\ transactions' = transactions
             /\ \A a \in Addrs :
                   /\ alloc[a] # NoAccount => alloc'[a] # NoAccount
                   /\ out_alloc[a] # NoAccount => out_alloc'[a] # NoAccount]_vars

\* a second dump has replaced the document of the first
C12_Witness ==
    /\ pc = "select" /\ dumps = 2
    /\ file.content = <<Fixture(transactions, alloc, out_alloc, env, result)>>
    /\ transactions # <<>> /\ alloc # EmptyAlloc
    /\ env > 2

\* the step in which a dump that mined a block with transactions does not
\* go on to the receipts: the mined block could not be retrieved
BlockNotRetrieved ==
    /\ pc = "mine" /\ pc' # "receipts"
    /\ blocks'[Len(blocks')].txs # <<>>

\* C13: a dump whose mined block cannot be retrieved assembles nothing:
\* neither the reset nor the mining step changes transactions, alloc,
\* out_alloc, env or result, and what such a dump writes is that fixture.
C13_NoBlockNoResult ==
    [][/\ pc = "reset" => UNCHANGED fixture
       /\ BlockNotRetrieved
            => /\ UNCHANGED fixture
               /\ file' # file /\ file'.content # <<>>
                     => file'.content =
                           <<Fixture(transactions, alloc, out_alloc, env, result)>>]_vars

\* a first dump with accumulated transactions has returned without having
\* assembled anything, and has written the fixture as it was
C13_Witness ==
    /\ pc = "select" /\ dumps = 1
    /\ transactions # <<>>
    /\ env = DefaultEnv /\ result = DefaultResult
    /\ file.content = <<Fixture(transactions, alloc, out_alloc, env, result)>>

\* C14: when a dump assembles a result, the fixture's transactions are the
\* transaction list of the block the result was taken from, in length and
\* in order.
C14_TransactionsMatchBlock ==
    [][Assembles
          => \A b \in Stored(blocks', env') : transactions' = b.txs]_vars

\* C15: a dump goes reset, mine, receipts, traces, assemble and write, in
\* that order and each call once: after the reset comes the mining whether
\* the reset succeeded or not, exactly one block is mined and only at the
\* mining step, each receipt and each trace is requested once in block
\* order, and the result is assembled in the step that writes the file.
C15_DumpStepOrder ==
    [][/\ pc = "reset"
            => /\ pc' = "mine"
               /\ minted' = minted
               /\ pool_txs' = PoolTxs(transactions)
       /\ pc = "mine"
            => /\ pc' \in {"receipts", "select", "returned"}
               /\ minted' = minted + 1
               /\ pc' = "receipts" => i' = 1 /\ receipts' = <<>>
       /\ pc = "receipts"
            => /\ pc' \in {"receipts", "trace", "returned"}
               /\ minted' = minted /\ UNCHANGED <<fixture, file>>
               /\ pc' = "receipts" => i' = i + 1
               /\ pc' = "trace" => i = Len(ordered_txs) /\ i' = 1
       /\ pc = "trace"
            => /\ pc' \in {"trace", "select", "returned"}
               /\ minted' = minted
               /\ pc' = "trace" => i' = i + 1 /\ UNCHANGED <<env, result, file>>
               /\ pc' = "select" => i = Len(ordered_txs) /\ Assembles
       /\ (InDump /\ pc' = "returned") => ret' # "Ok"
       /\ (InDump /\ Assembles)
            => \/ file' = file
               \/ file'.content = <<>>
               \/ /\ file'.content[1].env = env'
                  /\ file'.content[1].result = result']_vars

\* the reset of the dump failed and the dump has gone on: it mined, fetched
\* the receipts and is at its second trace
C15_Witness ==
    /\ pc = "trace" /\ ~reset_ok /\ i = 2
    /\ Len(receipt_log) = 2 /\ dumps = 1

\* the step in which repl takes a block notification
TakesNotification == Len(new_blocks') < Len(new_blocks)

C17_OnlyDiffTracesMerged ==
    [][pc = "trace"
          => /\ \A answer \in TraceAnswers :
                   answer.shape # "diff"
                      => /\ AllocAfter(alloc, answer) = alloc
                         /\ OutAllocAfter(out_alloc, answer) = out_alloc
             /\ \/ UNCHANGED <<alloc, out_alloc>>
                \/ \E f \in Frames :
                      /\ alloc' = MergePre(alloc, f.pre)
                      /\ out_alloc' = MergePost(out_alloc, f.post)
             /\ pc' = "trace" => i' = i + 1 /\ i < Len(ordered_txs)]_vars

\* a dump of a block with transactions has assembled its result and
\* returned, no trace of it having been a diff frame: alloc and out_alloc
\* are as they were
C17_Witness ==
    /\ pc = "select" /\ dumps = 1
    /\ Len(result.tx_root) > 1
    /\ alloc = EmptyAlloc /\ out_alloc = EmptyAlloc

\* C18: a dump does not grow the accumulator: once a dump has written the
\* fixture and every pending notification is handled, no external block
\* having been mined or handled since the dump began, transactions is the
\* list the dump wrote.
C18_DumpDoesNotFeedBack ==
    (pc = "select" /\ quiet /\ new_blocks = <<>> /\ file.content # <<>>)
       => transactions = file.content[1].transactions

\* C19: a dump covers every block announced before it: when repl
\* dispatches a Dump command no block notification is left pending.
C19_DumpCoversAnnouncedBlocks ==
    [][(pc = "select" /\ pc' = "reset") => new_blocks = <<>>]_vars

\* C20: no operator line is lost: the read of a command takes the first of
\* the lines available and leaves those behind it for the next reads.
C20_NoInputLost ==
    [][ReadsLine => stdin' = Tail(stdin)]_vars

=============================================================================
